---------------------------- MODULE Spec2Model ----------------------------
(***************************************************************************)
(* The per-frame people tracker and line-crossing counter of               *)
(* src/src/lib/supabase.ts (imported by the Analytics page as              *)
(* ../lib/peopleDetection): the module-level registry trackedPeople, the   *)
(* frame call detectPeopleWithCrossing and resetTracking.                  *)
(*                                                                         *)
(* Units.  Pixel coordinates are integers; every box of a scene has an     *)
(* even width and height, so the centres x + width/2 and y + height/2 are  *)
(* integers too.  Detector confidences are in hundredths (0.2 is 20).      *)
(* Match scores are in units of 1e-5 (0.3 is 30000), the distance inside   *)
(* a score in tenths of a pixel.  Time is in milliseconds.  The code reads *)
(* lastSeen only in differences Date.now() - person.lastSeen, so the clock *)
(* origin is moved to the current reading at every frame: lastSeen holds   *)
(* the timestamp relative to the clock reading of the latest frame (0 for  *)
(* a track seen in that frame, -250 for one seen 250 ms before it).        *)
(***************************************************************************)
EXTENDS Integers, Sequences, FiniteSets

VARIABLES
    scene,          \* what the detector can report in this run (fixed by Init)
    replay,         \* the frames still to be played when the run is scripted
    trackedPeople,  \* the registry, in Map insertion order
    nextId,         \* source of fresh track identifiers
    countIn,        \* countIn returned by the latest completed call
    countOut,       \* countOut returned by the latest completed call
    matchedPeople,  \* final value of the local matchedPeople of that call
    assignment,     \* per sorted detection of that call: the id of the
                    \* person it updated or created, NoId when it did neither
    events,         \* the persons that call counted, with their direction
    gap,            \* ms between the clock readings of the latest two calls
    cleaned,        \* ids deleted by cleanupTrackedPeople in that call
    leftView,       \* ids deleted by the final removal pass of that call
    sinceEvent,     \* per live track: frames processed since its last event
    lastOp,         \* the latest operation: "init", "frame", "reset"
    resetsInARow,   \* consecutive resetTracking calls just made
    inFlight,       \* the runDetection calls waiting in `await detectPeople`,
                    \* in the order they sampled their frame
    countInRef,     \* countInRef.current of the Analytics page
    countOutRef,    \* countOutRef.current
    totalCountRef,  \* totalCountRef.current
    staleDone,      \* the latest completed call was in flight at a reset
    seen,           \* the predictions model.detect gave the latest call
    boxes,          \* geometry runs: the box of a prediction and of a person
    measuredIoU,    \* geometry runs: what calculateIoU returned for them
    oscillation,    \* oscillation runs: frames and events of the walk so far
    adapter,        \* storage runs: "firebase" or "local"
    cameras,        \* storage runs: ids of the stored cameras
    settings,       \* storage runs: the stored settings, [id, camera_id]
    deleteCall,     \* storage runs: the camera id of the deleteCamera call
                    \* that waits for its settings query (NoId: none)
    pendingDeletes, \* storage runs: ids of the settings whose deleteDoc was
                    \* issued and has not been carried out yet
    deleted         \* storage runs: the camera ids whose deleteCamera returned

vars == <<scene, replay, trackedPeople, nextId, countIn, countOut, matchedPeople,
          assignment, events, gap, cleaned, leftView, sinceEvent, lastOp,
          resetsInARow, inFlight, countInRef, countOutRef, totalCountRef,
          staleDone, seen, boxes, measuredIoU, oscillation, adapter, cameras,
          settings, deleteCall, pendingDeletes, deleted>>

\* The state of the Analytics page around the tracker.
pageVars == <<inFlight, countInRef, countOutRef, totalCountRef, staleDone>>

\* The state of the runs that exercise the geometry functions alone.
geometryVars == <<boxes, measuredIoU>>

\* The state of the storage service (src/src/lib/firebaseService.ts).
storeVars == <<adapter, cameras, settings, deleteCall, pendingDeletes, deleted>>

-----------------------------------------------------------------------------
(* Program constants.                                                      *)

CROSSING_LINE_POSITION == 50
TRACKING_THRESHOLD == 400
TRACKING_TIMEOUT == 3000
MIN_CONFIDENCE == 20
CROSSING_COOLDOWN == 15
MIN_DISTANCE_FOR_CROSSING == 5
GRACE_PERIOD == 500
MIN_MATCH_SCORE == 30000
FrameHeight == 200

(* What the Analytics page tells its user about the counter: "60-frame     *)
(* cooldown prevents duplicate counts", "Requires minimum 30px vertical    *)
(* movement to count".                                                     *)

DESCRIBED_COOLDOWN == 60
DESCRIBED_MIN_DISTANCE == 30

(* Bounds of the model.                                                    *)

MaxIds == 2
MaxResets == 2
GapCap == 16

NoId == 0

-----------------------------------------------------------------------------
(* Arithmetic helpers.                                                     *)

Abs(n) == IF n < 0 THEN -n ELSE n
Min(a, b) == IF a < b THEN a ELSE b
Max(a, b) == IF a > b THEN a ELSE b

RECURSIVE SqrtBetween(_, _, _)
SqrtBetween(n, lo, hi) ==
    IF lo >= hi THEN lo
    ELSE LET mid == (lo + hi + 1) \div 2
         IN  IF mid * mid <= n THEN SqrtBetween(n, mid, hi)
                               ELSE SqrtBetween(n, lo, mid - 1)

\* Math.sqrt, rounded down to an integer.
Isqrt(n) == SqrtBetween(n, 0, 46340)


-----------------------------------------------------------------------------
(* Boxes are <<x, y, width, height>>, as the detector's bbox.              *)

BoxCenterX(bbox) == bbox[1] + bbox[3] \div 2
BoxCenterY(bbox) == bbox[2] + bbox[4] \div 2

\* A person box of the scenes: 40 x 40 around the centre (cx, cy).
BoxAt(cx, cy) == <<cx - 20, cy - 20, 40, 40>>

Person(cx, cy, score) ==
    [bbox |-> BoxAt(cx, cy), class |-> "person", score |-> score]

\* The squared centre distance: distance > TRACKING_THRESHOLD is decided on
\* it exactly.
DistanceSquared(x1, y1, x2, y2) == (x2 - x1) * (x2 - x1) + (y2 - y1) * (y2 - y1)

\* calculateDistance, in tenths of a pixel (rounded down).
calculateDistance(x1, y1, x2, y2) == Isqrt(100 * DistanceSquared(x1, y1, x2, y2))

\* What a division whose divisor is 0 gives in JavaScript when the dividend
\* is 0 as well: NaN, for which every comparison is false.
NaN == -1

\* calculateIoU, in units of 1e-5.
calculateIoU(bbox1, bbox2) ==
    LET xLeft == Max(bbox1[1], bbox2[1])
        yTop == Max(bbox1[2], bbox2[2])
        xRight == Min(bbox1[1] + bbox1[3], bbox2[1] + bbox2[3])
        yBottom == Min(bbox1[2] + bbox1[4], bbox2[2] + bbox2[4])
        intersectionArea == (xRight - xLeft) * (yBottom - yTop)
        unionArea == bbox1[3] * bbox1[4] + bbox2[3] * bbox2[4] - intersectionArea
    IN  IF xRight < xLeft \/ yBottom < yTop THEN 0
        ELSE IF unionArea = 0 THEN NaN
        ELSE (100000 * intersectionArea) \div unionArea

\* sizeRatio of findClosestPerson, in units of 1e-5.
SizeRatio(bbox1, bbox2) ==
    LET a1 == bbox1[3] * bbox1[4]
        a2 == bbox2[3] * bbox2[4]
    IN  IF Max(a1, a2) = 0 THEN NaN
        ELSE (100000 * Min(a1, a2)) \div Max(a1, a2)

\* The score findClosestPerson gives a tracked person within
\* TRACKING_THRESHOLD of the detection, in units of 1e-5:
\* iou * 0.5 + distanceScore * 0.3 + sizeRatio * 0.2.
MatchScore(bbox, centerX, centerY, person) ==
    LET distance == calculateDistance(centerX, centerY, person.centerX, person.centerY)
        iou == calculateIoU(bbox, person.bbox)
        sizeRatio == SizeRatio(bbox, person.bbox)
        distanceScore == Max(0, 100000 - (100000 * distance) \div (10 * TRACKING_THRESHOLD))
    IN  IF iou = NaN \/ sizeRatio = NaN THEN NaN
        ELSE (iou * 5) \div 10 + (distanceScore * 3) \div 10 + (sizeRatio * 2) \div 10

\* The forEach of findClosestPerson over the registry from entry i on, with
\* the best candidate so far: a later person replaces it only with a
\* strictly greater score.
RECURSIVE ClosestFrom(_, _, _, _, _, _, _)
ClosestFrom(people, i, bbox, centerX, centerY, maxScore, closest) ==
    IF i > Len(people) THEN closest
    ELSE LET person == people[i]
             tooFar == DistanceSquared(centerX, centerY, person.centerX, person.centerY)
                         > TRACKING_THRESHOLD * TRACKING_THRESHOLD
             score == MatchScore(bbox, centerX, centerY, person)
         IN  IF ~tooFar /\ score # NaN /\ score > maxScore
             THEN ClosestFrom(people, i + 1, bbox, centerX, centerY, score, person.id)
             ELSE ClosestFrom(people, i + 1, bbox, centerX, centerY, maxScore, closest)

\* findClosestPerson: the id of the best-scoring tracked person, NoId for null.
findClosestPerson(people, bbox, centerX, centerY) ==
    ClosestFrom(people, 1, bbox, centerX, centerY, MIN_MATCH_SCORE, NoId)

-----------------------------------------------------------------------------
(* The steps of detectPeopleWithCrossing.                                  *)

\* Date.now() of the running call: the clock origin (see Units).
DateNow == 0

\* The registry seen from a clock reading ms later.
AdvanceClock(people, ms) ==
    [i \in 1..Len(people) |-> [people[i] EXCEPT !.lastSeen = @ - ms]]

Ids(people) == {people[i].id : i \in 1..Len(people)}

PersonById(people, id) ==
    people[CHOOSE i \in 1..Len(people) : people[i].id = id]

\* Mutant of detectPeople: no filter.
detectAnything(predictions) == predictions

\* detectPeople: the person predictions of at least MIN_CONFIDENCE.
detectPeople(predictions) ==
    LET Keep(prediction) ==
            prediction.class = "person" /\ prediction.score >= MIN_CONFIDENCE
    IN  SelectSeq(predictions, Keep)

\* [...detections].sort((a, b) => b.score - a.score): descending, and stable
\* (a detection goes behind those of the same score that precede it).
RECURSIVE InsertByScore(_, _)
InsertByScore(sorted, detection) ==
    IF sorted = <<>> THEN <<detection>>
    ELSE IF detection.score > Head(sorted).score THEN <<detection>> \o sorted
    ELSE <<Head(sorted)>> \o InsertByScore(Tail(sorted), detection)

RECURSIVE SortByScoreFrom(_, _, _)
SortByScoreFrom(detections, i, sorted) ==
    IF i > Len(detections) THEN sorted
    ELSE SortByScoreFrom(detections, i + 1, InsertByScore(sorted, detections[i]))

SortByScore(detections) == SortByScoreFrom(detections, 1, <<>>)

\* Mutant of cleanupTrackedPeople: nothing is deleted.
CleanupNothing(people) == people

\* cleanupTrackedPeople keeps a person unless now - lastSeen > TRACKING_TIMEOUT.
StaysTracked(person) == ~(DateNow - person.lastSeen > TRACKING_TIMEOUT)

cleanupTrackedPeople(people) == SelectSeq(people, StaysTracked)

\* Mutant of CooldownPass: > for >= in the test against CROSSING_COOLDOWN.
CooldownPassLate(person) ==
    IF person.crossed
    THEN IF person.framesSinceCrossing + 1 > CROSSING_COOLDOWN
         THEN [person EXCEPT !.crossed = FALSE, !.framesSinceCrossing = 0,
                             !.direction = "none"]
         ELSE [person EXCEPT !.framesSinceCrossing = @ + 1]
    ELSE person

\* The cooldown pass on one person.
CooldownPass(person) ==
    IF person.crossed
    THEN IF person.framesSinceCrossing + 1 >= CROSSING_COOLDOWN
         THEN [person EXCEPT !.crossed = FALSE, !.framesSinceCrossing = 0,
                             !.direction = "none"]
         ELSE [person EXCEPT !.framesSinceCrossing = @ + 1]
    ELSE person

\* Mutant of CooldownAll: the pass is skipped.
CooldownSkipped(people) == people

CooldownAll(people) == [i \in 1..Len(people) |-> CooldownPass(people[i])]

\* Mutant of AboveLine: <= for < in the comparison with the line.
AboveOrOnLine(y) == 100 * y <= FrameHeight * CROSSING_LINE_POSITION

\* crossingLineY = frameHeight * CROSSING_LINE_POSITION (in hundredths):
\* y < crossingLineY and y > crossingLineY, without the division.
AboveLine(y) == 100 * y < FrameHeight * CROSSING_LINE_POSITION
BelowLine(y) == 100 * y > FrameHeight * CROSSING_LINE_POSITION

\* Mutant of EnoughMovement: >= for > in the minimum-distance test.
EnoughMovementInclusive(verticalMovement, horizontalMovement) ==
    /\ verticalMovement >= MIN_DISTANCE_FOR_CROSSING
    /\ 10 * verticalMovement > horizontalMovement

\* verticalMovement > MIN_DISTANCE_FOR_CROSSING && isVerticalMovement, where
\* isVerticalMovement is verticalMovement > horizontalMovement * 0.1.
EnoughMovement(verticalMovement, horizontalMovement) ==
    /\ verticalMovement > MIN_DISTANCE_FOR_CROSSING
    /\ 10 * verticalMovement > horizontalMovement

\* Mutant of CrossingEvent: the two zones are taken for each other.
CrossingEventSwapped(previousY, centerY, previousCenterX, centerX) ==
    LET crossedDown == AboveLine(previousY) /\ BelowLine(centerY)
        crossedUp == BelowLine(previousY) /\ AboveLine(centerY)
    IN  IF EnoughMovement(Abs(centerY - previousY), Abs(centerX - previousCenterX))
        THEN IF crossedDown THEN "out"
             ELSE IF crossedUp THEN "in"
             ELSE "none"
        ELSE "none"

\* The event of a matched person that is not in cooldown.
CrossingEvent(previousY, centerY, previousCenterX, centerX) ==
    LET crossedDown == AboveLine(previousY) /\ BelowLine(centerY)
        crossedUp == BelowLine(previousY) /\ AboveLine(centerY)
        verticalMovement == Abs(centerY - previousY)
        horizontalMovement == Abs(centerX - previousCenterX)
    IN  IF EnoughMovement(verticalMovement, horizontalMovement)
        THEN IF crossedDown THEN "in"
             ELSE IF crossedUp THEN "out"
             ELSE "none"
        ELSE "none"

\* Mutant of EventOf: the cooldown check is missing.
EventIgnoringCooldown(person, previousY, centerY, previousCenterX, centerX) ==
    CrossingEvent(previousY, centerY, previousCenterX, centerX)

\* if (!existingPerson.crossed): only then is a crossing looked for.
EventOf(person, previousY, centerY, previousCenterX, centerX) ==
    IF ~person.crossed
    THEN CrossingEvent(previousY, centerY, previousCenterX, centerX)
    ELSE "none"

\* Mutant of CanClaim: the matchedPeople test is missing.
CanClaimAgain(existingPerson, matched) == existingPerson # NoId

\* if (existingPerson && !matchedPeople.has(existingPerson.id))
CanClaim(existingPerson, matched) ==
    existingPerson # NoId /\ existingPerson \notin matched

\* Mutant of UpdatePerson: previousY is not written.
UpdatePersonStalePreviousY(person, detection, event) ==
    LET moved == [person EXCEPT !.bbox = detection.bbox,
                                !.centerX = BoxCenterX(detection.bbox),
                                !.centerY = BoxCenterY(detection.bbox),
                                !.lastSeen = DateNow]
    IN  IF event = "none" THEN moved
        ELSE [moved EXCEPT !.direction = event, !.crossed = TRUE,
                           !.framesSinceCrossing = 0]

\* The matched branch: the person after the position update and the
\* crossing check.
UpdatePerson(person, detection, event) ==
    LET moved == [person EXCEPT !.bbox = detection.bbox,
                                !.centerX = BoxCenterX(detection.bbox),
                                !.previousY = person.centerY,
                                !.centerY = BoxCenterY(detection.bbox),
                                !.lastSeen = DateNow]
    IN  IF event = "none" THEN moved
        ELSE [moved EXCEPT !.direction = event, !.crossed = TRUE,
                           !.framesSinceCrossing = 0]

\* Mutant of NewPerson: every new person gets the same identifier.
NewPersonSameId(id, detection) ==
    [id |-> 1,
     bbox |-> detection.bbox,
     centerX |-> BoxCenterX(detection.bbox),
     centerY |-> BoxCenterY(detection.bbox),
     previousY |-> BoxCenterY(detection.bbox),
     lastSeen |-> DateNow,
     crossed |-> FALSE,
     direction |-> "none",
     framesSinceCrossing |-> 0]

\* The else-if (!existingPerson) branch: the new TrackedPerson.
NewPerson(id, detection) ==
    [id |-> id,
     bbox |-> detection.bbox,
     centerX |-> BoxCenterX(detection.bbox),
     centerY |-> BoxCenterY(detection.bbox),
     previousY |-> BoxCenterY(detection.bbox),
     lastSeen |-> DateNow,
     crossed |-> FALSE,
     direction |-> "none",
     framesSinceCrossing |-> 0]

\* Mutant of CountAfter: the count is raised for an event of either direction.
CountAnyEvent(count, event, direction) ==
    IF event # "none" THEN count + 1 ELSE count

\* countIn++ in the crossedDown branch, countOut++ in the crossedUp branch.
CountAfter(count, event, direction) ==
    IF event = direction THEN count + 1 ELSE count

\* One iteration of sortedDetections.forEach.  st carries the registry, the
\* locals matchedPeople, countIn and countOut, the id source, and what the
\* iterations did (assignment, events).
ProcessDetection(st, detection) ==
    LET centerX == BoxCenterX(detection.bbox)
        centerY == BoxCenterY(detection.bbox)
        existingPerson == findClosestPerson(st.people, detection.bbox, centerX, centerY)
    IN  IF CanClaim(existingPerson, st.matched)
        THEN LET person == PersonById(st.people, existingPerson)
                 event == EventOf(person, person.centerY, centerY, person.centerX, centerX)
                 updated == UpdatePerson(person, detection, event)
             IN  [st EXCEPT
                    !.people = [i \in 1..Len(st.people) |->
                                  IF st.people[i].id = existingPerson
                                  THEN updated ELSE st.people[i]],
                    !.matched = @ \cup {existingPerson},
                    !.countIn = CountAfter(@, event, "in"),
                    !.countOut = CountAfter(@, event, "out"),
                    !.assignment = Append(@, existingPerson),
                    !.events = IF event = "none" THEN @
                               ELSE Append(@, [id |-> existingPerson, direction |-> event])]
        ELSE IF existingPerson = NoId
        THEN [st EXCEPT
                !.people = Append(@, NewPerson(st.nextId, detection)),
                !.matched = @ \cup {st.nextId},
                !.nextId = @ + 1,
                !.assignment = Append(@, st.nextId)]
        ELSE [st EXCEPT !.assignment = Append(@, NoId)]

RECURSIVE ProcessDetections(_, _, _)
ProcessDetections(st, sortedDetections, i) ==
    IF i > Len(sortedDetections) THEN st
    ELSE CHOOSE done \in {ProcessDetections(next, sortedDetections, i + 1) :
                            next \in {ProcessDetection(st, sortedDetections[i])}} : TRUE

\* Mutant of LeavesView: >= for > in the grace-period test.
LeavesViewInclusive(person, matched) ==
    person.id \notin matched /\ DateNow - person.lastSeen >= GRACE_PERIOD

\* Mutant of LeavesView: no grace period.
LeavesViewAtOnce(person, matched) == person.id \notin matched

\* The removal pass: an unmatched person goes once
\* Date.now() - person.lastSeen > 500.
LeavesView(person, matched) ==
    person.id \notin matched /\ DateNow - person.lastSeen > GRACE_PERIOD

RemoveLeft(people, matched) ==
    LET Stays(person) == ~LeavesView(person, matched)
    IN  SelectSeq(people, Stays)

\* Mutant of Cleared: only the oldest entry is deleted.
ClearedOldest(people) == IF people = <<>> THEN <<>> ELSE Tail(people)

\* resetTracking: trackedPeople.clear().
Cleared(people) == <<>>

-----------------------------------------------------------------------------------------------------------------------------------------------------
(* Scenes: the predictions the detector can make in a run, and the times   *)
(* that can pass between the clock readings of two successive frame calls: *)
(* the 250 ms of the polling interval, 600 ms (longer than the grace       *)
(* period), 3600 ms (longer than timeout plus grace).  A frame's           *)
(* predictions are any of the scene's, in the order listed.                *)

\* One person stepping back and forth over the line (y = 100), with pauses.
SceneJitter ==
    [predictions |-> <<Person(100, 40, 90), Person(100, 120, 90)>>,
     gaps |-> {250, 600, 3600}]

\* Small steps about the line: 97 -> 102 is 5 px, 97 -> 104 is 7 px.
SceneSmallMoves ==
    [predictions |-> <<Person(100, 97, 90), Person(100, 102, 85), Person(100, 104, 80)>>,
     gaps |-> {250}]

\* A step over the line that is mostly sideways: 80 px across, 7 px down.
SceneSideways ==
    [predictions |-> <<Person(100, 97, 90), Person(180, 104, 90)>>,
     gaps |-> {250}]

\* Two people 300 px apart: one standing at y = 30, one walking between
\* y = 170 and y = 60.
SceneApart ==
    [predictions |-> <<Person(100, 30, 90), Person(400, 170, 80), Person(400, 60, 80)>>,
     gaps |-> {250, 600}]

\* A person, an object, a person below MIN_CONFIDENCE and one exactly at it.
SceneFilter ==
    [predictions |-> <<Person(100, 40, 90),
                       [bbox |-> BoxAt(100, 120), class |-> "chair", score |-> 95],
                       Person(100, 120, 10),
                       Person(100, 130, 20)>>,
     gaps |-> {250}]

\* Two people 300 px apart, and a detection between them: 120 px from the
\* first, 180 px from the second.
SceneBetween ==
    [predictions |-> <<Person(100, 40, 90), Person(400, 40, 80), Person(220, 40, 80)>>,
     gaps |-> {250}]

\* A person walking down over the line in steps of 10 px, one of them
\* landing exactly on the line (y = 100).
SceneOnLine ==
    [predictions |-> <<Person(100, 90, 90), Person(100, 100, 90), Person(100, 110, 90)>>,
     gaps |-> {250}]

Scenes == {SceneJitter, SceneSmallMoves, SceneSideways, SceneApart, SceneFilter,
           SceneBetween, SceneOnLine}

\* The entries of seq whose index is in S, in order.
Pick(seq, S) ==
    LET Test(i) == i \in S
        idx == SelectSeq([i \in 1..Len(seq) |-> i], Test)
    IN  [k \in 1..Len(idx) |-> seq[idx[k]]]

-----------------------------------------------------------------------------
(* The state machine.                                                      *)

InitTracker ==
    /\ trackedPeople = <<>>
    /\ nextId = 1
    /\ countIn = 0
    /\ countOut = 0
    /\ matchedPeople = {}
    /\ assignment = <<>>
    /\ events = <<>>
    /\ gap = 0
    /\ cleaned = {}
    /\ leftView = {}
    /\ sinceEvent = <<>>
    /\ lastOp = "init"
    /\ resetsInARow = 0
    /\ inFlight = <<>>
    /\ countInRef = 0
    /\ countOutRef = 0
    /\ totalCountRef = 0
    /\ staleDone = FALSE
    /\ seen = <<>>
    /\ measuredIoU = 0
    /\ oscillation = [frames |-> 0, events |-> 0]
    /\ cameras = {}
    /\ settings = {}
    /\ deleteCall = 0
    /\ pendingDeletes = {}
    /\ deleted = {}

Init ==
    /\ adapter = "local"
    /\ boxes = <<>>
    /\ scene \in Scenes
    /\ replay = <<>>
    /\ InitTracker

\* The frames since a person's previous event, as the frame that is being
\* processed sees it (GapCap when there was none, or longer ago).
FramesSinceEvent(id) ==
    IF id \in DOMAIN sinceEvent THEN Min(sinceEvent[id] + 1, GapCap) ELSE GapCap

\* detectPeople resolves with `predictions`, ms after the previous call's
\* clock reading, and the rest of detectPeopleWithCrossing runs to its end.
Frame(predictions, ms) ==
    \E atCall \in {AdvanceClock(trackedPeople, ms)} :
    \E kept \in {cleanupTrackedPeople(atCall)} :
    \E sortedDetections \in {SortByScore(detectPeople(predictions))} :
    \E st \in {ProcessDetections(
                 [people |-> CooldownAll(kept), matched |-> {}, countIn |-> 0,
                  countOut |-> 0, nextId |-> nextId, assignment |-> <<>>,
                  events |-> <<>>],
                 sortedDetections, 1)} :
    \E final \in {RemoveLeft(st.people, st.matched)} :
        /\ st.nextId <= MaxIds + 1
        /\ trackedPeople' = final
        /\ nextId' = st.nextId
        /\ countIn' = st.countIn
        /\ countOut' = st.countOut
        /\ matchedPeople' = st.matched
        /\ assignment' = st.assignment
        /\ events' = st.events
        /\ gap' = ms
        /\ seen' = predictions
        /\ cleaned' = Ids(atCall) \ Ids(kept)
        /\ leftView' = Ids(st.people) \ Ids(final)
        /\ sinceEvent' = [id \in Ids(final) |->
                            IF \E i \in 1..Len(st.events) : st.events[i].id = id
                            THEN 0 ELSE FramesSinceEvent(id)]
        /\ lastOp' = "frame"
        /\ resetsInARow' = 0
        /\ UNCHANGED scene

\* A call of detectPeopleWithCrossing made while no other one is waiting,
\* on whatever the detector reports.
FrameStep ==
    /\ replay = <<>>
    /\ \E S \in SUBSET (1..Len(scene.predictions)), ms \in scene.gaps :
          Frame(Pick(scene.predictions, S), ms)
    /\ UNCHANGED <<replay, pageVars, geometryVars, oscillation, storeVars>>

\* resetTracking().
ResetTracking ==
    /\ replay = <<>>
    /\ resetsInARow < MaxResets
    /\ trackedPeople' = Cleared(trackedPeople)
    /\ sinceEvent' = <<>>
    /\ lastOp' = "reset"
    /\ resetsInARow' = resetsInARow + 1
    /\ UNCHANGED <<scene, replay, nextId, countIn, countOut, matchedPeople,
                   assignment, events, gap, cleaned, leftView, pageVars, seen,
                   geometryVars, oscillation, storeVars>>

Next == FrameStep \/ ResetTracking

Spec == Init /\ [][Next]_vars

-----------------------------------------------------------------------------
(* The scenario of two people crossing in the same frame, played as        *)
(* scripted: frame 1 reports the first two predictions of the scene,       *)
(* frame 2 the last two, 250 ms later.  The first person stays in the      *)
(* column x = 100, the second one is placed in any column of ScenarioXs.   *)

TwoPeople(xb, sa, sb) ==
    [predictions |-> <<Person(100, 30, sa), Person(xb, 170, sb),
                       Person(100, 130, sa), Person(xb, 60, sb)>>,
     gaps |-> {250}]

ScenarioXs == {100 + 20 * k : k \in 0..20}

InitScenario ==
    /\ adapter = "local"
    /\ boxes = <<>>
    /\ scene \in {TwoPeople(xb, s[1], s[2]) :
                    xb \in ScenarioXs, s \in {<<90, 80>>, <<80, 90>>}}
    /\ replay = <<{1, 2}, {3, 4}>>
    /\ InitTracker

ReplayStep ==
    /\ replay # <<>>
    /\ Frame(Pick(scene.predictions, Head(replay)), 250)
    /\ replay' = Tail(replay)
    /\ UNCHANGED <<pageVars, geometryVars, oscillation, storeVars>>

NextScenario == ReplayStep

SpecScenario == InitScenario /\ [][NextScenario]_vars

-----------------------------------------------------------------------------
(* The polling loop of the Analytics page.  startCounting arms             *)
(* setInterval(async () => { await runDetection() }, 250): the timer fires *)
(* every 250 ms whether or not the promise of the previous callback has    *)
(* settled.  A callback samples the video frame when it calls              *)
(* model.detect and is suspended in `await detectPeople` until the         *)
(* detector resolves; the rest of detectPeopleWithCrossing and of          *)
(* runDetection then runs without suspension.  Nothing in the code orders  *)
(* the resolutions of several pending detect calls, so any waiting call    *)
(* can be the next to resume.  resetCount is a click handler: it runs      *)
(* between any two of these steps.                                         *)

\* Calls that can wait for the detector at a time.
MaxInFlight == 2

\* The highest value of countInRef / countOutRef that is followed.
MaxCount == 2

\* One person stepping over the line; a call resumes 250 ms after the
\* previous one did.
ScenePolling ==
    [predictions |-> <<Person(100, 40, 90), Person(100, 120, 90)>>,
     gaps |-> {250}]

InitPolling ==
    /\ adapter = "local"
    /\ boxes = <<>>
    /\ scene = ScenePolling
    /\ replay = <<>>
    /\ InitTracker

\* The timer fires: runDetection up to its `await`.  The predictions are
\* those of the frame sampled now.
Tick ==
    /\ Len(inFlight) < MaxInFlight
    /\ \E S \in SUBSET (1..Len(scene.predictions)) :
          inFlight' = Append(inFlight,
                             [predictions |-> Pick(scene.predictions, S),
                              stale |-> FALSE])
    /\ UNCHANGED <<scene, replay, trackedPeople, nextId, countIn, countOut,
                   matchedPeople, assignment, events, gap, cleaned, leftView,
                   sinceEvent, lastOp, resetsInARow, countInRef, countOutRef,
                   totalCountRef, staleDone, seen, geometryVars, oscillation, storeVars>>

\* inFlight without its i-th entry.
Without(calls, i) ==
    [k \in 1..(Len(calls) - 1) |-> IF k < i THEN calls[k] ELSE calls[k + 1]]

\* The detector resolves for the i-th waiting call: the frame call runs to
\* its end and runDetection adds its result to the page's counts.
Resume(i) ==
    /\ \E ms \in scene.gaps : Frame(inFlight[i].predictions, ms)
    /\ countInRef' = countInRef + countIn'
    /\ countOutRef' = countOutRef + countOut'
    /\ totalCountRef' = Max(0, totalCountRef + countIn' - countOut')
    /\ countInRef' <= MaxCount
    /\ countOutRef' <= MaxCount
    /\ staleDone' = inFlight[i].stale
    /\ inFlight' = Without(inFlight, i)
    /\ UNCHANGED <<replay, geometryVars, oscillation, storeVars>>

ResumeStep == \E i \in 1..Len(inFlight) : Resume(i)

\* resetCount: the page's counts are zeroed and resetTracking is called;
\* the calls that are waiting keep waiting.
ResetCount ==
    /\ resetsInARow < MaxResets
    /\ countInRef' = 0
    /\ countOutRef' = 0
    /\ totalCountRef' = 0
    /\ trackedPeople' = Cleared(trackedPeople)
    /\ sinceEvent' = <<>>
    /\ lastOp' = "reset"
    /\ resetsInARow' = resetsInARow + 1
    /\ inFlight' = [k \in 1..Len(inFlight) |-> [inFlight[k] EXCEPT !.stale = TRUE]]
    /\ UNCHANGED <<scene, replay, nextId, countIn, countOut, matchedPeople,
                   assignment, events, gap, cleaned, leftView, staleDone, seen,
                   geometryVars, oscillation, storeVars>>

NextPolling == Tick \/ ResumeStep \/ ResetCount

SpecPolling == InitPolling /\ [][NextPolling]_vars

-----------------------------------------------------------------------------
(* The geometry functions on boxes of any shape.  The detector's bbox is   *)
(* passed on by detectPeople as it comes (the filter looks at class and    *)
(* score only), and findClosestPerson hands it to calculateIoU together    *)
(* with the box of each tracked person within TRACKING_THRESHOLD.  A run   *)
(* draws the two boxes and measures them once.                             *)

\* Corners and sizes of the boxes drawn: widths and heights that are
\* negative, zero and positive.
BoxCorners == {0, 10}
BoxSizes == {-20, 0, 20}

BoxValues == {<<x, y, w, h>> : x \in BoxCorners, y \in BoxCorners,
                               w \in BoxSizes, h \in BoxSizes}

InitGeometry ==
    /\ adapter = "local"
    /\ scene = SceneJitter
    /\ replay = <<>>
    /\ InitTracker
    /\ boxes \in BoxValues \X BoxValues

\* A prediction with the box boxes[1] goes through detectPeople and is
\* compared with a tracked person whose box is boxes[2].
MeasureIoU ==
    /\ lastOp = "init"
    /\ \E detections \in {detectPeople(<<[bbox |-> boxes[1], class |-> "person",
                                            score |-> 90]>>)} :
          /\ detections # <<>>
          /\ measuredIoU' = calculateIoU(detections[1].bbox, boxes[2])
    /\ lastOp' = "iou"
    /\ UNCHANGED <<scene, replay, trackedPeople, nextId, countIn, countOut,
                   matchedPeople, assignment, events, gap, cleaned, leftView,
                   sinceEvent, resetsInARow, pageVars, seen, boxes, oscillation,
                   storeVars>>

NextGeometry == MeasureIoU

SpecGeometry == InitGeometry /\ [][NextGeometry]_vars

-----------------------------------------------------------------------------
(* The camera store.  Cameras and their settings are kept by one of three  *)
(* adapters: Firestore (FirebaseService), localStorage                     *)
(* (LocalStorageService) and the Supabase tables, where settings.camera_id *)
(* REFERENCES cameras(id) ON DELETE CASCADE.  The pages add a camera       *)
(* together with its default setting.  FirebaseService.deleteCamera awaits *)
(* the deletion of the camera document and the query for its settings,     *)
(* then starts a deleteDoc for each setting found inside                   *)
(* forEach(async ...) and returns without awaiting them.                   *)

\* The cameras that are ever added.
MaxCameras == 3

InitStore ==
    /\ scene = SceneJitter
    /\ adapter \in {"firebase", "local", "supabase"}
    /\ boxes = <<>>
    /\ replay = <<>>
    /\ InitTracker

trackerVars == <<scene, replay, trackedPeople, nextId, countIn, countOut,
                 matchedPeople, assignment, events, gap, cleaned, leftView,
                 sinceEvent, lastOp, resetsInARow, pageVars, seen, geometryVars,
                 oscillation>>

SettingsOf(id) == {s \in settings : s.camera_id = id}

\* addCamera of the Settings page: the camera and its default setting.
AddCamera(id) ==
    /\ id \notin cameras \cup deleted
    /\ id # deleteCall
    /\ cameras' = cameras \cup {id}
    /\ settings' = settings \cup {[id |-> id, camera_id |-> id]}
    /\ UNCHANGED <<adapter, deleteCall, pendingDeletes, deleted, trackerVars>>

\* LocalStorageService.deleteCamera: both lists are rewritten before it
\* returns.
LocalDeleteCamera(id) ==
    /\ adapter = "local"
    /\ id \in cameras
    /\ cameras' = cameras \ {id}
    /\ settings' = settings \ SettingsOf(id)
    /\ deleted' = deleted \cup {id}
    /\ UNCHANGED <<adapter, deleteCall, pendingDeletes, trackerVars>>

\* supabase.from('cameras').delete().eq('id', cameraId): the row goes and
\* the database deletes the settings that reference it.
SupabaseDeleteCamera(id) ==
    /\ adapter = "supabase"
    /\ id \in cameras
    /\ cameras' = cameras \ {id}
    /\ settings' = settings \ SettingsOf(id)
    /\ deleted' = deleted \cup {id}
    /\ UNCHANGED <<adapter, deleteCall, pendingDeletes, trackerVars>>

\* FirebaseService.deleteCamera up to `await getDocs(q)`: the camera
\* document is deleted.
FirebaseDeleteCamera(id) ==
    /\ adapter = "firebase"
    /\ deleteCall = NoId
    /\ id \in cameras
    /\ cameras' = cameras \ {id}
    /\ deleteCall' = id
    /\ UNCHANGED <<adapter, settings, pendingDeletes, deleted, trackerVars>>

\* The query resolves: a deleteDoc is started for every setting found, and
\* deleteCamera returns.
FirebaseDeleteReturns ==
    /\ deleteCall # NoId
    /\ pendingDeletes' = pendingDeletes \cup {s.id : s \in SettingsOf(deleteCall)}
    /\ deleted' = deleted \cup {deleteCall}
    /\ deleteCall' = NoId
    /\ UNCHANGED <<adapter, cameras, settings, trackerVars>>

\* One of the deleteDoc calls on a setting is carried out.
SettingDeleted ==
    \E id \in pendingDeletes :
       /\ settings' = {s \in settings : s.id # id}
       /\ pendingDeletes' = pendingDeletes \ {id}
       /\ UNCHANGED <<adapter, cameras, deleteCall, deleted, trackerVars>>

NextStore ==
    \/ \E id \in 1..MaxCameras : AddCamera(id)
    \/ \E id \in 1..MaxCameras : LocalDeleteCamera(id)
    \/ \E id \in 1..MaxCameras : SupabaseDeleteCamera(id)
    \/ \E id \in 1..MaxCameras : FirebaseDeleteCamera(id)
    \/ FirebaseDeleteReturns
    \/ SettingDeleted

SpecStore == InitStore /\ [][NextStore]_vars

-----------------------------------------------------------------------------
(* A detection between two tracks, played as scripted: frame 1 reports two *)
(* people 300 px apart (each gets a track, the one with the higher         *)
(* confidence first), frame 2 reports one detection somewhere between or   *)
(* beside them.                                                            *)

DetectionBetween(xd, yd, sa, sb) ==
    [predictions |-> <<Person(100, 40, sa), Person(400, 40, sb), Person(xd, yd, 85)>>,
     gaps |-> {250}]

BetweenXs == {100 + 10 * k : k \in 0..30}
BetweenYs == {40, 120}

InitOrder ==
    /\ scene \in {DetectionBetween(xd, yd, s[1], s[2]) :
                    xd \in BetweenXs, yd \in BetweenYs,
                    s \in {<<90, 80>>, <<80, 90>>}}
    /\ adapter = "local"
    /\ boxes = <<>>
    /\ replay = <<{1, 2}, {3}>>
    /\ InitTracker

NextOrder == ReplayStep

SpecOrder == InitOrder /\ [][NextOrder]_vars

-----------------------------------------------------------------------------
(* A person oscillating about the line: one person, detected in every      *)
(* frame (250 ms apart), whose centre is on one side of the line in one    *)
(* frame and on the other side in the next.  The run fixes the two         *)
(* positions; the first prediction of the scene is where the walk starts.  *)
(* oscillation counts the frames processed and the events they returned.   *)

\* The frames of a walk that are followed.
MaxFrames == 32

OscillationAbove == {40, 97}
OscillationBelow == {102, 104, 120}

OscillationScenes ==
    {[predictions |-> <<Person(100, y[1], 90), Person(100, y[2], 90)>>,
      gaps |-> {250}] :
        y \in (OscillationAbove \X OscillationBelow)
                 \cup (OscillationBelow \X OscillationAbove)}

InitOscillation ==
    /\ scene \in OscillationScenes
    /\ adapter = "local"
    /\ boxes = <<>>
    /\ replay = <<>>
    /\ InitTracker

\* The next frame of the walk: the person is at the start in the frames
\* 1, 3, 5, ... and on the other side in the frames 2, 4, 6, ...
OscillateStep ==
    /\ oscillation.frames < MaxFrames
    /\ Frame(<<scene.predictions[IF oscillation.frames % 2 = 0 THEN 1 ELSE 2]>>, 250)
    /\ oscillation' = [frames |-> oscillation.frames + 1,
                       events |-> oscillation.events + countIn' + countOut']
    /\ UNCHANGED <<replay, pageVars, geometryVars, storeVars>>

NextOscillation == OscillateStep

SpecOscillation == InitOscillation /\ [][NextOscillation]_vars

-----------------------------------------------------------------------------
(* Vocabulary of the claims.                                               *)

\* The step is a completed frame call.
IsFrame == lastOp' = "frame"

People == {trackedPeople[i] : i \in 1..Len(trackedPeople)}
PeopleAfter == {trackedPeople'[i] : i \in 1..Len(trackedPeople')}

EventIdsAfter == {events'[i].id : i \in 1..Len(events')}

\* The events the latest call counted for person id, in one direction.
EventsOf(id, direction) ==
    {i \in 1..Len(events) : events[i].id = id /\ events[i].direction = direction}
EventsOfAfter(id, direction) ==
    {i \in 1..Len(events') : events'[i].id = id /\ events'[i].direction = direction}

\* The centre went from one side of the line to the other.
Straddles(fromY, toY) ==
    \/ AboveLine(fromY) /\ BelowLine(toY)
    \/ BelowLine(fromY) /\ AboveLine(toY)

\* The person is (still) in cooldown when the next frame associates: crossed,
\* and fewer than CROSSING_COOLDOWN frames later.
InCooldownNextFrame(person) ==
    person.crossed /\ person.framesSinceCrossing + 1 < CROSSING_COOLDOWN

-----------------------------------------------------------------------------
(* C1.  No double count within cooldown: whenever a frame counts a person, *)
(* that person's previous event lies at least CROSSING_COOLDOWN (15)       *)
(* frames back (or it had none), however its box moved in between, and the *)
(* frame counts the person once.                                           *)

C1_NoDoubleCountWithinCooldown ==
    [][IsFrame =>
         /\ \A id \in EventIdsAfter : FramesSinceEvent(id) >= CROSSING_COOLDOWN
         /\ \A i, j \in 1..Len(events') : events'[i].id = events'[j].id => i = j]_vars

\* A person counted 14 frames ago that has just been matched on the other
\* side of the line, more than MIN_DISTANCE_FOR_CROSSING away, and was not
\* counted for it.
C1_Witness ==
    /\ lastOp = "frame"
    /\ events = <<>>
    /\ \E p \in People :
          /\ p.id \in matchedPeople
          /\ p.crossed
          /\ sinceEvent[p.id] = CROSSING_COOLDOWN - 1
          /\ Straddles(p.previousY, p.centerY)
          /\ Abs(p.centerY - p.previousY) > MIN_DISTANCE_FOR_CROSSING

-----------------------------------------------------------------------------
(* C2.  Direction correctness.  As claimed: a matched person that is not   *)
(* in cooldown and whose centre went from above the line to below it is    *)
(* counted once as entering (crossed, direction in, framesSinceCrossing 0),*)
(* and once as exiting for the move from below to above.                   *)

\* What the frame did to person p, now q, for a move that is to be counted
\* in `direction` and not in `other`.
CountedOnce(q, direction, other) ==
    /\ q.crossed
    /\ q.direction = direction
    /\ q.framesSinceCrossing = 0
    /\ Cardinality(EventsOfAfter(q.id, direction)) = 1
    /\ EventsOfAfter(q.id, other) = {}

\* The persons the frame matched, as (before, after) pairs, that were not
\* in cooldown.
MatchedOutOfCooldown ==
    {pq \in People \X PeopleAfter :
        /\ pq[1].id = pq[2].id
        /\ pq[2].id \in matchedPeople'
        /\ ~InCooldownNextFrame(pq[1])}

C2_AnyMoveAcrossIsCounted ==
    [][IsFrame =>
         \A pq \in MatchedOutOfCooldown :
            /\ AboveLine(pq[1].centerY) /\ BelowLine(pq[2].centerY)
                  => CountedOnce(pq[2], "in", "out")
            /\ BelowLine(pq[1].centerY) /\ AboveLine(pq[2].centerY)
                  => CountedOnce(pq[2], "out", "in")]_vars

(* C2, amended: ... provided the centre moved more than                    *)
(* MIN_DISTANCE_FOR_CROSSING (5 px) vertically and more than a tenth of    *)
(* its horizontal movement; then the frame's countIn (countOut) includes   *)
(* exactly one event for the person.                                       *)

MovedEnough(p, q) ==
    /\ Abs(q.centerY - p.centerY) > MIN_DISTANCE_FOR_CROSSING
    /\ 10 * Abs(q.centerY - p.centerY) > Abs(q.centerX - p.centerX)

C2_DirectionCorrectness ==
    [][IsFrame =>
         \A pq \in MatchedOutOfCooldown :
            MovedEnough(pq[1], pq[2]) =>
               /\ AboveLine(pq[1].centerY) /\ BelowLine(pq[2].centerY)
                     => CountedOnce(pq[2], "in", "out") /\ countIn' >= 1
               /\ BelowLine(pq[1].centerY) /\ AboveLine(pq[2].centerY)
                     => CountedOnce(pq[2], "out", "in") /\ countOut' >= 1]_vars

\* The move of the claim: from y = 40 to y = 120, counted in.
C2_Witness ==
    /\ lastOp = "frame"
    /\ countIn = 1
    /\ countOut = 0
    /\ \E p \in People :
          /\ p.id \in matchedPeople
          /\ p.previousY = 40
          /\ p.centerY = 120
          /\ p.crossed
          /\ p.direction = "in"
          /\ p.framesSinceCrossing = 0
          /\ EventsOf(p.id, "in") # {}

-----------------------------------------------------------------------------
(* C3.  The scenario of two simultaneous crossings, as claimed: the two    *)
(* people detected in frame 1 at y = 30 and y = 170 each get their own     *)
(* track; frame 2, which detects them at y = 130 and y = 60, returns       *)
(* countIn = 1 and countOut = 1, and the registry still holds exactly the  *)
(* two tracks of frame 1.  (Checked under SpecScenario.)                   *)

C3_TwoSimultaneousCrossings ==
    /\ Len(replay) = 1 =>
          /\ Len(trackedPeople) = 2
          /\ {p.centerY : p \in People} = {30, 170}
    /\ replay = <<>> =>
          /\ countIn = 1
          /\ countOut = 1
          /\ Len(trackedPeople) = 2
          /\ Ids(trackedPeople) = {1, 2}

-----------------------------------------------------------------------------
(* C4.  As claimed: every detection of a frame either updates a person or  *)
(* creates one, and the person it creates has a fresh identifier, the      *)
(* detection's centre as centerY and previousY, crossed = false,           *)
(* direction none, framesSinceCrossing = 0 and lastSeen = now; no          *)
(* detection is discarded.                                                 *)

C4_EveryDetectionIsTracked ==
    [][IsFrame =>
         \A i \in 1..Len(assignment') :
            /\ assignment'[i] # NoId
            /\ assignment'[i] \notin Ids(trackedPeople) =>
                  /\ assignment'[i] >= nextId
                  /\ \E q \in PeopleAfter :
                        /\ q.id = assignment'[i]
                        /\ q.previousY = q.centerY
                        /\ ~q.crossed
                        /\ q.direction = "none"
                        /\ q.framesSinceCrossing = 0
                        /\ q.lastSeen = DateNow]_vars

-----------------------------------------------------------------------------
(* C5.  No count without sufficient movement: a matched person whose       *)
(* centre moved at most MIN_DISTANCE_FOR_CROSSING (5 px) vertically is not *)
(* counted by the frame and is not put in cooldown by it, also when the    *)
(* two centres lie on opposite sides of the line.                          *)

C5_NoCountWithoutMovement ==
    [][IsFrame =>
         \A p \in People, q \in PeopleAfter :
            (/\ p.id = q.id
             /\ q.id \in matchedPeople'
             /\ Abs(q.centerY - p.centerY) <= MIN_DISTANCE_FOR_CROSSING)
            => /\ q.id \notin EventIdsAfter
               /\ q.crossed = InCooldownNextFrame(p)]_vars

\* A person matched 5 px further, on the other side of the line, not counted.
C5_Witness ==
    /\ lastOp = "frame"
    /\ events = <<>>
    /\ countIn = 0
    /\ countOut = 0
    /\ \E p \in People :
          /\ p.id \in matchedPeople
          /\ ~p.crossed
          /\ Straddles(p.previousY, p.centerY)
          /\ Abs(p.centerY - p.previousY) = MIN_DISTANCE_FOR_CROSSING

-----------------------------------------------------------------------------
(* C6.  Re-identification across a single dropped frame.                   *)

\* Person p was matched in the frame before this step's (frame N), and this
\* step's frame (N+1) comes within the grace period and does not match it.
DroppedNow(p) ==
    /\ lastOp = "frame"
    /\ p.id \in matchedPeople
    /\ p.id \notin matchedPeople'
    /\ gap' <= GRACE_PERIOD

\* Person p was matched in frame N and not in the frame before this step's
\* (N+1), which came within the grace period; this step's frame is N+2.
DroppedBefore(p) ==
    /\ lastOp = "frame"
    /\ p.id \notin matchedPeople
    /\ p.lastSeen = DateNow - gap
    /\ gap <= GRACE_PERIOD

\* A person that this step's frame created for a detection near person p:
\* one that p scores above the minimum match score.
CreatedNear(p) ==
    {q \in PeopleAfter :
        /\ q.id \notin Ids(trackedPeople)
        /\ DistanceSquared(q.centerX, q.centerY, p.centerX, p.centerY)
              <= TRACKING_THRESHOLD * TRACKING_THRESHOLD
        /\ MatchScore(q.bbox, q.centerX, q.centerY, p) > MIN_MATCH_SCORE}

(* As claimed: a track matched in frame N and matched by no detection in   *)
(* frame N+1, within the grace period, is still in the registry after      *)
(* frame N+1 with its identifier, crossed and direction as they were, and  *)
(* is still there in frame N+2 (taken to come before the tracking timeout), *)
(* where no track is created for a detection near it while it stays        *)
(* unmatched.                                                              *)

C6_DropoutKeepsCrossingState ==
    [][IsFrame =>
         /\ \A p \in People :
               DroppedNow(p) =>
                  \E q \in PeopleAfter :
                     /\ q.id = p.id
                     /\ q.crossed = p.crossed
                     /\ q.direction = p.direction
         /\ \A p \in People :
               (DroppedBefore(p) /\ gap' - p.lastSeen <= TRACKING_TIMEOUT) =>
                  /\ p.id \notin cleaned'
                  /\ p.id \notin matchedPeople' => CreatedNear(p) = {}]_vars

(* C6, amended: ... the track keeps its identifier, box, centre, previousY *)
(* and lastSeen through frame N+1, and its crossing state changes only as  *)
(* the cooldown pass changes it (crossed and direction are cleared when    *)
(* framesSinceCrossing reaches CROSSING_COOLDOWN in that frame, and kept   *)
(* otherwise); if frame N+2 comes while lastSeen is at most                *)
(* TRACKING_TIMEOUT old, the track is still in the registry when frame N+2 *)
(* associates, a detection that matches it updates it under the same       *)
(* identifier, and no track is created for a detection near it while it    *)
(* stays unmatched.                                                        *)

C6_ReidentificationAfterDropout ==
    [][IsFrame =>
         /\ \A p \in People :
               DroppedNow(p) =>
                  \E q \in PeopleAfter :
                     /\ q.id = p.id
                     /\ q.bbox = p.bbox
                     /\ q.centerX = p.centerX
                     /\ q.centerY = p.centerY
                     /\ q.previousY = p.previousY
                     /\ q.lastSeen = p.lastSeen - gap'
                     /\ q.crossed = InCooldownNextFrame(p)
                     /\ q.direction = (IF q.crossed THEN p.direction ELSE "none")
                     /\ q.framesSinceCrossing =
                           (IF q.crossed THEN p.framesSinceCrossing + 1 ELSE 0)
         /\ \A p \in People :
               (DroppedBefore(p) /\ gap' - p.lastSeen <= TRACKING_TIMEOUT) =>
                  /\ p.id \notin cleaned'
                  /\ p.id \in matchedPeople' =>
                        \E q \in PeopleAfter :
                           /\ q.id = p.id
                           /\ q.previousY = p.centerY
                           /\ q.lastSeen = DateNow
                  /\ p.id \notin matchedPeople' => CreatedNear(p) = {}]_vars

\* Frame N+2 has matched again a person in cooldown that frame N+1 missed:
\* last seen in this frame, two frames after its event, one track in all.
C6_Witness ==
    /\ lastOp = "frame"
    /\ gap = 250
    /\ nextId = 2
    /\ Len(trackedPeople) = 1
    /\ \E p \in People :
          /\ p.id \in matchedPeople
          /\ p.crossed
          /\ p.framesSinceCrossing = 2
          /\ p.previousY = p.centerY
          /\ sinceEvent[p.id] = 2

-----------------------------------------------------------------------------
(* C7.  Eviction: a person whose lastSeen is more than TRACKING_TIMEOUT +  *)
(* 500 ms old when a frame is processed is not in the registry after that  *)
(* frame and no detection of the frame is matched to it; and a person that *)
(* has left the registry never comes back, so no later frame matches it    *)
(* either (a frame matches only persons of the registry).                  *)

C7_Eviction ==
    [][IsFrame =>
         /\ \A p \in People :
               gap' - p.lastSeen > TRACKING_TIMEOUT + GRACE_PERIOD =>
                  /\ p.id \notin Ids(trackedPeople')
                  /\ p.id \notin matchedPeople'
                  /\ \A i \in 1..Len(assignment') : assignment'[i] # p.id
         /\ matchedPeople' \subseteq Ids(trackedPeople')
         /\ \A id \in Ids(trackedPeople') :
               id \in Ids(trackedPeople) \/ id >= nextId]_vars

\* The frame came more than timeout plus grace after the person was seen:
\* cleanup deleted it, and the detection of the frame started a new track.
C7_Witness ==
    /\ lastOp = "frame"
    /\ gap > TRACKING_TIMEOUT + GRACE_PERIOD
    /\ cleaned = {1}
    /\ assignment = <<2>>
    /\ Ids(trackedPeople) = {2}

-----------------------------------------------------------------------------
(* C8.  Idempotent reset: after resetTracking the registry is empty, and   *)
(* a second resetTracking in a row changes nothing; the first frame        *)
(* processed after a reset matches no person of before the reset, and its  *)
(* first detection, which finds the registry empty, creates a person.      *)

C8_IdempotentReset ==
    /\ [](resetsInARow >= 1 => trackedPeople = <<>>)
    /\ [][(resetsInARow >= 1 /\ resetsInARow' = resetsInARow + 1)
             => trackedPeople' = trackedPeople]_vars
    /\ [][(lastOp = "reset" /\ IsFrame) =>
             /\ \A id \in matchedPeople' : id >= nextId
             /\ \A id \in Ids(trackedPeople') : id >= nextId
             /\ assignment' # <<>> => assignment'[1] = nextId]_vars

\* resetTracking was called twice in a row after persons had been tracked.
C8_Witness ==
    /\ resetsInARow = 2
    /\ lastOp = "reset"
    /\ nextId > 1
    /\ trackedPeople = <<>>

-----------------------------------------------------------------------------
(* C9.  Matching is exclusive: no person is updated or created by two      *)
(* detections of one frame (a detection updates or creates at most the one *)
(* person assignment names), and the persons the frame claimed are exactly *)
(* those the detections were assigned.                                     *)

C9_ExclusiveMatching ==
    lastOp = "frame" =>
       /\ \A i, j \in 1..Len(assignment) :
             (assignment[i] # NoId /\ assignment[i] = assignment[j]) => i = j
       /\ matchedPeople = {assignment[i] : i \in 1..Len(assignment)} \ {NoId}

\* Two detections whose best person is the same one: the second did not
\* update it.
C9_Witness ==
    /\ lastOp = "frame"
    /\ Len(assignment) = 2
    /\ assignment[1] # NoId
    /\ assignment[2] = NoId
    /\ Cardinality(matchedPeople) = 1

-----------------------------------------------------------------------------
(* C10.  The counts of a frame call are the events of that frame: countIn  *)
(* is the number of persons the call newly marked entering, countOut the   *)
(* number it newly marked exiting, no person is counted twice or in both   *)
(* directions, and countIn + countOut is at most the number of persons     *)
(* matched in the frame.                                                   *)

\* The persons the latest call put in cooldown in the given direction:
\* every older cooldown has framesSinceCrossing >= 1.
NewlyMarked(direction) ==
    {p \in People :
        /\ p.crossed
        /\ p.framesSinceCrossing = 0
        /\ p.direction = direction}

C10_CountsAreThisFramesEvents ==
    lastOp = "frame" =>
       /\ countIn = Cardinality(NewlyMarked("in"))
       /\ countOut = Cardinality(NewlyMarked("out"))
       /\ countIn = Cardinality({i \in 1..Len(events) : events[i].direction = "in"})
       /\ countOut = Cardinality({i \in 1..Len(events) : events[i].direction = "out"})
       /\ \A i, j \in 1..Len(events) : events[i].id = events[j].id => i = j
       /\ NewlyMarked("in") \cup NewlyMarked("out") \subseteq
             {p \in People : p.id \in matchedPeople}
       /\ countIn + countOut <= Cardinality(matchedPeople)

\* Two persons matched in one frame, one of them counted (exiting).
C10_Witness ==
    /\ lastOp = "frame"
    /\ Cardinality(matchedPeople) = 2
    /\ countOut = 1
    /\ countIn = 0
    /\ Cardinality(NewlyMarked("out")) = 1

-----------------------------------------------------------------------------
(* C11.  Frame-processing calls never overlap: the polling loop starts no  *)
(* frame call while an earlier one has not completed, so at most one call  *)
(* is in flight at any time (and the calls update the registry in the      *)
(* order they sampled their frames).                                       *)

C11_NoOverlappingFrameCalls == Len(inFlight) <= 1

-----------------------------------------------------------------------------
(* C12.  Reset discards all state and happens only between frame calls:    *)
(* resetCount runs while no frame call is in flight, and a frame call that *)
(* was in flight when a reset ran creates no track, updates none and       *)
(* changes none of the page's counts when it completes.                    *)

C12_ResetDiscardsAllState ==
    [][/\ lastOp' = "reset" => inFlight = <<>>
       /\ (lastOp' = "frame" /\ staleDone') =>
             /\ nextId' = nextId
             /\ matchedPeople' = {}
             /\ countInRef' = countInRef
             /\ countOutRef' = countOutRef
             /\ totalCountRef' = totalCountRef]_vars

-----------------------------------------------------------------------------
(* C13.  A frame with zero detections returns countIn = 0 and              *)
(* countOut = 0, creates no track and changes no track's box, centre,      *)
(* previousY or lastSeen; it advances the cooldown counter of every track  *)
(* with crossed = true (clearing crossed, direction and the counter when   *)
(* it reaches CROSSING_COOLDOWN) and removes exactly the tracks last seen  *)
(* more than the grace period before it.                                   *)

\* The track p as a frame without detections, ms after the previous one,
\* leaves it.
AfterEmptyFrame(p, ms) ==
    [p EXCEPT !.lastSeen = @ - ms,
              !.crossed = InCooldownNextFrame(p),
              !.direction = IF InCooldownNextFrame(p) THEN @ ELSE "none",
              !.framesSinceCrossing = IF InCooldownNextFrame(p) THEN @ + 1 ELSE 0]

C13_EmptyFrame ==
    [][(IsFrame /\ assignment' = <<>>) =>
         /\ countIn' = 0
         /\ countOut' = 0
         /\ events' = <<>>
         /\ nextId' = nextId
         /\ matchedPeople' = {}
         /\ PeopleAfter =
              {AfterEmptyFrame(p, gap') : p \in {q \in People :
                                                   gap' - q.lastSeen <= GRACE_PERIOD}}
         /\ Len(trackedPeople') = Cardinality(PeopleAfter)]_vars

\* A frame without detections has left a person that was counted in the
\* frame before it: one frame into the cooldown, last seen 250 ms ago.
C13_Witness ==
    /\ lastOp = "frame"
    /\ assignment = <<>>
    /\ countIn = 0
    /\ countOut = 0
    /\ \E p \in People :
          /\ p.crossed
          /\ p.framesSinceCrossing = 1
          /\ p.lastSeen = -250
          /\ p.previousY = 40
          /\ p.centerY = 120

-----------------------------------------------------------------------------
(* C14.  The person/confidence filter is applied before association: only  *)
(* the predictions with class person and score >= MIN_CONFIDENCE (0.2) are *)
(* associated, so every track a frame created or updated has the box of    *)
(* such a prediction of that frame, and a frame in which no prediction     *)
(* passes counts nothing and matches nothing.                              *)

Qualifying == {i \in 1..Len(seen) :
                 seen[i].class = "person" /\ seen[i].score >= MIN_CONFIDENCE}

C14_FilterBeforeAssociation ==
    lastOp = "frame" =>
       /\ Len(assignment) = Cardinality(Qualifying)
       /\ Cardinality(matchedPeople) <= Cardinality(Qualifying)
       /\ countIn + countOut <= Cardinality(Qualifying)
       /\ \A p \in People :
             p.id \in matchedPeople =>
                \E i \in Qualifying : seen[i].bbox = p.bbox

\* The detector reported a person, a chair and a faint person at once, and
\* the frame tracked the person only.
C14_Witness ==
    /\ lastOp = "frame"
    /\ Len(seen) = 3
    /\ seen[3].score < MIN_CONFIDENCE
    /\ Cardinality(Qualifying) = 1
    /\ assignment = <<1>>
    /\ Len(trackedPeople) = 1
    /\ \A p \in People : p.centerY = 40 /\ p.id \in matchedPeople

-----------------------------------------------------------------------------
(* C15.  Track identity: in every reachable state no two tracks of the     *)
(* registry share an identifier, and an identifier denotes the same track  *)
(* from its creation to its deletion: a frame leaves a track it does not   *)
(* match where it was, moves a track it matches on from its last centre,   *)
(* and gives every track it creates an identifier that was never used.     *)

C15_TrackIdentity ==
    /\ [](/\ Cardinality(Ids(trackedPeople)) = Len(trackedPeople)
          /\ \A id \in Ids(trackedPeople) : id < nextId)
    /\ [][IsFrame =>
            \A q \in PeopleAfter :
               IF q.id \in Ids(trackedPeople)
               THEN LET p == PersonById(trackedPeople, q.id)
                    IN  /\ q.id \in matchedPeople' => q.previousY = p.centerY
                        /\ q.id \notin matchedPeople' =>
                              /\ q.bbox = p.bbox
                              /\ q.centerY = p.centerY
                              /\ q.previousY = p.previousY
               ELSE /\ q.id >= nextId
                    /\ q.id < nextId'
                    /\ q.id \in matchedPeople'
                    /\ q.previousY = q.centerY
                    /\ ~q.crossed]_vars

\* Two live tracks, the second created while the first one lived; the
\* second has just been matched and moved, the first one stayed.
C15_Witness ==
    /\ lastOp = "frame"
    /\ Len(trackedPeople) = 2
    /\ trackedPeople[1].id # trackedPeople[2].id
    /\ trackedPeople[2].previousY # trackedPeople[2].centerY
    /\ trackedPeople[2].id \in matchedPeople
    /\ trackedPeople[1].id \notin matchedPeople

-----------------------------------------------------------------------------
(* C16.  Degenerate and malformed boxes: calculateIoU returns exactly 0    *)
(* (never NaN, never a negative value) whenever one of its boxes has zero  *)
(* width or height, two coincident zero-area boxes included, and no box    *)
(* with a negative width or height reaches calculateIoU.                   *)

Degenerate(bbox) == bbox[3] = 0 \/ bbox[4] = 0
Malformed(bbox) == bbox[3] < 0 \/ bbox[4] < 0

C16_DegenerateBoxes ==
    lastOp = "iou" =>
       /\ ~Malformed(boxes[1]) /\ ~Malformed(boxes[2])
       /\ measuredIoU # NaN
       /\ measuredIoU >= 0
       /\ (Degenerate(boxes[1]) \/ Degenerate(boxes[2])) => measuredIoU = 0

-----------------------------------------------------------------------------
(* C17.  As the page describes it ("60-frame cooldown prevents duplicate   *)
(* counts"): a person that a frame counts was not counted in any of the    *)
(* 60 processed frames before it.  (sinceEvent is exact below GapCap.)     *)

C17_DescribedCooldown ==
    [][IsFrame =>
         \A id \in EventIdsAfter :
            FramesSinceEvent(id) < GapCap =>
               FramesSinceEvent(id) > DESCRIBED_COOLDOWN]_vars

-----------------------------------------------------------------------------
(* C18.  As the page describes it ("Requires minimum 30px vertical         *)
(* movement to count"): a person that a frame counts has moved its centre  *)
(* at least 30 px vertically since the previous frame.                     *)

C18_DescribedMinimumMovement ==
    [][IsFrame =>
         \A q \in PeopleAfter :
            q.id \in EventIdsAfter =>
               Abs(q.centerY - q.previousY) >= DESCRIBED_MIN_DISTANCE]_vars

-----------------------------------------------------------------------------
(* C19.  Greedy selection among unclaimed tracks: a detection is matched   *)
(* to the highest-scoring track among those not yet claimed in the frame;  *)
(* so a detection is left without a track only if no unclaimed track       *)
(* within TRACKING_THRESHOLD scores above the minimum (0.3) against it.    *)

\* The unclaimed tracks the frame leaves that score above the minimum
\* against the detection (a frame does not move the tracks it does not
\* match).
UnclaimedCandidates(detection) ==
    {q \in PeopleAfter :
        /\ q.id \notin matchedPeople'
        /\ DistanceSquared(BoxCenterX(detection.bbox), BoxCenterY(detection.bbox),
                           q.centerX, q.centerY)
              <= TRACKING_THRESHOLD * TRACKING_THRESHOLD
        /\ MatchScore(detection.bbox, BoxCenterX(detection.bbox),
                      BoxCenterY(detection.bbox), q) > MIN_MATCH_SCORE}

C19_GreedyAmongUnclaimed ==
    [][IsFrame =>
         \A k \in 1..Len(assignment') :
            assignment'[k] = NoId =>
               UnclaimedCandidates(SortByScore(detectPeople(seen'))[k]) = {}]_vars

-----------------------------------------------------------------------------
(* C20.  Cooldown expiry: a track counted in frame k has crossed = true    *)
(* through frames k+1 .. k+14, with framesSinceCrossing the number of      *)
(* frames processed since frame k whether or not the track was matched in  *)
(* them; frame k+15 clears crossed, direction and framesSinceCrossing      *)
(* before it associates, so that the track is counted again in frame k+15  *)
(* if it moves over the line there, and in no frame before.                *)

\* The (before, after) pairs of the tracks that live through the frame.
Surviving == {pq \in People \X PeopleAfter : pq[1].id = pq[2].id}

-----------------------------------------------------------------------------
(* C21.  A person oscillating about the line without net movement is not   *)
(* repeatedly counted.  As claimed: whenever the walk is back where it     *)
(* started, after any number of frames, at most one event was emitted for  *)
(* the track over the whole walk.                                          *)

\* The walk is on one track and stands where it started.
BackAtStart ==
    /\ oscillation.frames % 2 = 1
    /\ Len(trackedPeople) = 1
    /\ nextId = 2
    /\ trackedPeople[1].centerY = BoxCenterY(scene.predictions[1].bbox)

StepLength ==
    Abs(BoxCenterY(scene.predictions[1].bbox) - BoxCenterY(scene.predictions[2].bbox))

-----------------------------------------------------------------------------
(* C22.  Grace-period deletion: when a frame ends, a track that it did not *)
(* match is gone if and only if its lastSeen is more than 500 ms old; an   *)
(* unmatched track whose lastSeen is at most 500 ms old is still in the    *)
(* registry, and a track the frame matched or created is in the registry.  *)

C22_GracePeriodDeletion ==
    [][IsFrame =>
         /\ \A p \in People :
               p.id \notin matchedPeople' =>
                  (p.id \notin Ids(trackedPeople') <=> gap' - p.lastSeen > GRACE_PERIOD)
         /\ \A id \in matchedPeople' : id \in Ids(trackedPeople')
         /\ leftView' \cap matchedPeople' = {}]_vars

\* A track unmatched in two frames running, last seen exactly 500 ms ago,
\* is still in the registry.
C22_Witness ==
    /\ lastOp = "frame"
    /\ \E p \in People :
          /\ p.id \notin matchedPeople
          /\ p.lastSeen = -GRACE_PERIOD

-----------------------------------------------------------------------------
(* C23.  No dead-reckoning: a frame leaves the box, centerX, centerY,      *)
(* previousY and lastSeen of every track it does not match as they were;   *)
(* a track it matches gets the box and centre of a detection of the frame, *)
(* the frame's time as lastSeen, and as previousY the centerY it had       *)
(* before the frame.                                                       *)

C23_NoDeadReckoning ==
    [][IsFrame =>
         \A pq \in Surviving :
            LET p == pq[1]
                q == pq[2]
            IN  IF q.id \in matchedPeople'
                THEN /\ q.previousY = p.centerY
                     /\ q.lastSeen = DateNow
                     /\ q.centerX = BoxCenterX(q.bbox)
                     /\ q.centerY = BoxCenterY(q.bbox)
                     /\ \E i \in 1..Len(seen') : seen'[i].bbox = q.bbox
                ELSE /\ q.bbox = p.bbox
                     /\ q.centerX = p.centerX
                     /\ q.centerY = p.centerY
                     /\ q.previousY = p.previousY
                     /\ q.lastSeen + gap' = p.lastSeen]_vars

\* A track that moved without being counted and was then missed by a frame:
\* it stands where it was, with the previousY of its last move.
C23_Witness ==
    /\ lastOp = "frame"
    /\ \E p \in People :
          /\ p.id \notin matchedPeople
          /\ p.lastSeen = -250
          /\ p.previousY # p.centerY
          /\ ~p.crossed

-----------------------------------------------------------------------------
(* C24.  Registry iteration order is not semantically significant: for the *)
(* same set of tracks and the same detections, a frame matches each        *)
(* detection to the same track, emits the same events and leaves the same  *)
(* set of tracks whatever the insertion order of the tracks, also when two *)
(* tracks have equal scores for a detection.                               *)

Reverse(seq) == [i \in 1..Len(seq) |-> seq[Len(seq) + 1 - i]]

\* What a frame call on `predictions`, ms after the previous one, makes of
\* the registry `people`.
FrameOutcome(people, predictions, ms) ==
    LET kept == cleanupTrackedPeople(AdvanceClock(people, ms))
        st == ProcessDetections(
                 [people |-> CooldownAll(kept), matched |-> {}, countIn |-> 0,
                  countOut |-> 0, nextId |-> nextId, assignment |-> <<>>,
                  events |-> <<>>],
                 SortByScore(detectPeople(predictions)), 1)
    IN  [people |-> {st.people[i] : i \in 1..Len(st.people)} \
                       {p \in {st.people[i] : i \in 1..Len(st.people)} :
                           LeavesView(p, st.matched)},
         assignment |-> st.assignment,
         events |-> st.events,
         countIn |-> st.countIn,
         countOut |-> st.countOut]

C24_IterationOrderInsignificant ==
    [][IsFrame =>
         /\ FrameOutcome(trackedPeople, seen', gap') =
               [people |-> PeopleAfter, assignment |-> assignment',
                events |-> events', countIn |-> countIn', countOut |-> countOut']
         /\ FrameOutcome(Reverse(trackedPeople), seen', gap') =
               FrameOutcome(trackedPeople, seen', gap')]_vars

-----------------------------------------------------------------------------
(* C25.  Crossing-state invariant: between frames every track has          *)
(* direction none and framesSinceCrossing 0 when crossed is false, and     *)
(* direction in or out and 0 <= framesSinceCrossing < CROSSING_COOLDOWN    *)
(* when crossed is true.                                                   *)

C25_CrossingStateInvariant ==
    \A p \in People :
       IF p.crossed
       THEN /\ p.direction \in {"in", "out"}
            /\ p.framesSinceCrossing >= 0
            /\ p.framesSinceCrossing < CROSSING_COOLDOWN
       ELSE /\ p.direction = "none"
            /\ p.framesSinceCrossing = 0

\* A track counted as exiting, in the last frame of its cooldown, beside a
\* track that was never counted.
C25_Witness ==
    /\ \E p \in People :
          /\ p.crossed
          /\ p.direction = "out"
          /\ p.framesSinceCrossing = CROSSING_COOLDOWN - 1
    /\ \E p \in People : ~p.crossed

-----------------------------------------------------------------------------
(* C26.  A crossing made while a track is in cooldown is dropped, not      *)
(* deferred: a frame that matches a track in cooldown on the other side of *)
(* the line emits no event for it, leaves its direction as it was and      *)
(* overwrites previousY; and every event a frame emits is for the move the *)
(* track made in that very frame, in the direction of that move.  So a     *)
(* person who enters and exits again within the cooldown is counted as one *)
(* entry and no exit.                                                      *)

C26_CrossingInCooldownIsDropped ==
    [][IsFrame =>
         /\ EventIdsAfter \subseteq Ids(trackedPeople)
         /\ \A pq \in Surviving :
               LET p == pq[1]
                   q == pq[2]
               IN  /\ (/\ InCooldownNextFrame(p)
                       /\ q.id \in matchedPeople'
                       /\ Straddles(p.centerY, q.centerY)) =>
                          /\ q.id \notin EventIdsAfter
                          /\ q.previousY = p.centerY
                          /\ q.crossed
                          /\ q.direction = p.direction
                          /\ q.framesSinceCrossing = p.framesSinceCrossing + 1
                   /\ q.id \in EventIdsAfter =>
                          /\ q.id \in matchedPeople'
                          /\ ~InCooldownNextFrame(p)
                          /\ MovedEnough(p, q)
                          /\ EventsOfAfter(q.id, "in") # {} =>
                                AboveLine(p.centerY) /\ BelowLine(q.centerY)
                          /\ EventsOfAfter(q.id, "out") # {} =>
                                BelowLine(p.centerY) /\ AboveLine(q.centerY)]_vars

\* A person counted as entering in one frame and back above the line in the
\* next: still marked in, one frame into the cooldown, and no event.
C26_Witness ==
    /\ lastOp = "frame"
    /\ events = <<>>
    /\ countOut = 0
    /\ \E p \in People :
          /\ p.id \in matchedPeople
          /\ p.crossed
          /\ p.direction = "in"
          /\ p.framesSinceCrossing = 1
          /\ BelowLine(p.previousY)
          /\ AboveLine(p.centerY)

-----------------------------------------------------------------------------
(* C27.  A track whose centre lies exactly on the line in a frame          *)
(* (centerY = frameHeight * 0.5) emits no event in that frame nor in the   *)
(* next one, both comparisons with the line being strict: a track moving   *)
(* from above the line onto it and then below it is not counted for that   *)
(* crossing.                                                               *)

OnLine(y) == 100 * y = FrameHeight * CROSSING_LINE_POSITION

C27_OnTheLine ==
    [][IsFrame =>
         \A pq \in Surviving :
            (OnLine(pq[1].centerY) \/ OnLine(pq[2].centerY)) =>
               /\ pq[2].id \notin EventIdsAfter
               /\ pq[2].crossed = InCooldownNextFrame(pq[1])]_vars

\* A track that stood on the line has been matched 10 px below it, and not
\* counted.
C27_Witness ==
    /\ lastOp = "frame"
    /\ events = <<>>
    /\ \E p \in People :
          /\ p.id \in matchedPeople
          /\ OnLine(p.previousY)
          /\ BelowLine(p.centerY)
          /\ Abs(p.centerY - p.previousY) > MIN_DISTANCE_FOR_CROSSING
          /\ ~p.crossed

-----------------------------------------------------------------------------
(* C28.  A track emits no event in the frame in which it is created: a     *)
(* track a frame creates is not counted and not marked crossed by it, and  *)
(* a frame processed on an empty registry returns countIn = 0 and          *)
(* countOut = 0 whatever it detects.                                       *)

C28_NoEventAtCreation ==
    [][IsFrame =>
         /\ \A q \in PeopleAfter :
               q.id \notin Ids(trackedPeople) =>
                  /\ q.id \notin EventIdsAfter
                  /\ ~q.crossed
                  /\ q.direction = "none"
         /\ trackedPeople = <<>> =>
               /\ countIn' = 0
               /\ countOut' = 0
               /\ events' = <<>>]_vars

\* The first frame ever reported two people, one on each side of the line
\* and near each other: one track was created, nothing was counted.
C28_Witness ==
    /\ lastOp = "frame"
    /\ nextId = 2
    /\ assignment = <<1, NoId>>
    /\ Len(seen) = 2
    /\ Straddles(BoxCenterY(seen[1].bbox), BoxCenterY(seen[2].bbox))
    /\ countIn = 0
    /\ countOut = 0

-----------------------------------------------------------------------------
(* C29.  Camera deletion cascades to settings in every storage adapter:    *)
(* once deleteCamera(id) has returned, the store holds no camera with that *)
(* id and no setting whose camera_id is that id.                           *)

C29_DeleteCameraCascades ==
    \A id \in deleted :
       /\ id \notin cameras
       /\ SettingsOf(id) = {}

=============================================================================
